---- MODULE Spec2Model ----
(***************************************************************************)
(* compositor-killer: the frame-pacing / fence-tracking reactor of main(). *)
(*                                                                         *)
(* The model follows the main loop of the fence-tracking client            *)
(* (src/unnamed/part_000, lines 490-674) statement by statement.  One      *)
(* action is one stage of a loop iteration; the stages are cut at the      *)
(* points where the display server, the kernel or the GPU can act in       *)
(* between.  The Wayland handlers are operators applied by the dispatch.   *)
(***************************************************************************)
EXTENDS Integers, Sequences, FiniteSets, TLC

(* ------------------------------ bounds -------------------------------- *)

\* largest value of the -l option explored by Spec
MaxFrames == 2
\* what the environment does to one run beyond answering it: the events
\* the server sends on its own (configure, close) and the failures (a
\* flush that would block, an interrupted or failed poll, a failed ioctl, a
\* failed realloc, a broken connection)
MaxEvents == 2
\* completion points of a sync file fence_timestamp is called on in SpecFT,
\* at most
MaxPoints == 2
\* value of the -l option in the tracker-growth specification SpecGrow
GrowFrames == 12
\* fences that signal in one run of SpecGrow
GrowSignals == 1
\* frames SpecGrow submits before the GPU completes the first one
GrowQuiet == 8
\* largest timestamp of a completion point in SpecFT
FtTimes == 6

(* ------------------------- program constants -------------------------- *)

\* wl_state.frame = NULL
NULL == 0
\* size_t cap = 10
InitialCap == 10
\* fallback width / height
DefaultSize == 500
\* the descriptor wl_display_get_fd() returns
WlFd == 3
\* -f <w>x<h> used when fixed_size is set
FixedWidth == 320
FixedHeight == 240
\* a size the server proposes in xdg_toplevel.configure
ServerWidth == 640
ServerHeight == 480

VARIABLES
    \* command line (lines 222-256)
    unsynchronized, max_frames, fixed_size, fixed_width, fixed_height,
    \* EGL capability probe (lines 330-340)
    egl_has_fences,
    \* struct wl_state (lines 23-33)
    wl_state,
    \* main loop locals (lines 491-506)
    len, cap, fds, fences, frame_num,
    \* position in main()
    pc,
    \* libwayland: read intents held (the display's reader count), events on
    \* the socket, events queued
    reading, wire, queue,
    \* display server: callbacks it owes a done for, last serial, connection
    \* broken; nevents: events sent unasked and failures so far
    srv_cb, srv_serial, nevents, hup,
    \* kernel: the signalled sync files with the time they signalled at,
    \* close() calls per fence descriptor, CLOCK_MONOTONIC
    signaled, nclose, now,
    \* observations: submissions, frame_done calls, acknowledged serials,
    \* latency lines printed, viewport of the last submission, teardown
    \* order, process exit status
    nsubmit, ndone, acks, out, vp, released, exit_code,
    \* how the loop was left: by its condition, by the break after a failed
    \* flush or poll or a socket error, or by the return after a failed realloc
    ended,
    \* the result of the last wl_display_flush loop
    flushed,
    \* the descriptors the last poll reported readable
    reported,
    \* fence_timestamp() called on its own: argument and result
    ft_in, ft_ret,
    \* the single-fence client (src/main.c): struct state, the two pollfds,
    \* position in main(); events on its socket, callbacks its server holds,
    \* connection broken, events sent unasked and failures so far; signalled
    \* sync files, close() calls per descriptor, clock; lines printed,
    \* draw() calls
    m_st, m_fds, m_pc, m_wire, m_cb, m_hup, m_nev, m_signaled, m_nclose, m_now,
    m_out, m_ndraw,
    \* has_ext() called on its own: arguments and result
    he_in, he_ret

vars == <<unsynchronized, max_frames, fixed_size, fixed_width, fixed_height,
          egl_has_fences, wl_state, len, cap, fds, fences, frame_num, pc,
          reading, wire, queue, srv_cb, srv_serial, nevents, hup,
          signaled, nclose, now,
          nsubmit, ndone, acks, out, vp, released, exit_code, ended,
          flushed, reported, ft_in, ft_ret,
          m_st, m_fds, m_pc, m_wire, m_cb, m_hup, m_nev, m_signaled, m_nclose,
          m_now, m_out, m_ndraw, he_in, he_ret>>

config == <<unsynchronized, max_frames, fixed_size, fixed_width, fixed_height,
            egl_has_fences>>
tracker == <<len, cap, fds, fences>>
server == <<srv_cb, srv_serial, nevents, hup>>
ftvars == <<ft_in, ft_ret>>
probe == <<he_in, he_ret>>
mainc == <<m_st, m_fds, m_pc, m_wire, m_cb, m_hup, m_nev, m_signaled, m_nclose,
           m_now, m_out, m_ndraw>>

(* ----------------------------- handlers ------------------------------- *)

\* xdg_surface.configure
xdg_base_configure(st, serial) == [st EXCEPT !.serial = serial]

\* xdg_toplevel.configure
toplevel_configure(st, width, height) ==
    [st EXCEPT !.width = width, !.height = height]

\* xdg_toplevel.close
toplevel_close(st) == [st EXCEPT !.close = TRUE]

\* wl_callback.done of the frame callback
frame_done(st) == [st EXCEPT !.frame = NULL]

\* an event: type and two arguments
Msg(type, a, b) == [type |-> type, a |-> a, b |-> b]

\* the listener libwayland calls for one event
handle(st, m) ==
    CASE m.type = "configure" -> xdg_base_configure(st, m.a)
      [] m.type = "toplevel_configure" -> toplevel_configure(st, m.a, m.b)
      [] m.type = "close" -> toplevel_close(st)
      [] m.type = "done" -> frame_done(st)

RECURSIVE wl_display_dispatch_pending(_, _)
\* dispatches every queued event, in order
wl_display_dispatch_pending(st, q) ==
    IF q = <<>> THEN st
    ELSE wl_display_dispatch_pending(handle(st, Head(q)), Tail(q))

RECURSIVE CountDone(_)
\* frame_done calls a dispatch of q makes
CountDone(q) ==
    IF q = <<>> THEN 0
    ELSE (IF Head(q).type = "done" THEN 1 ELSE 0) + CountDone(Tail(q))

(* -------------------------- fence_timestamp --------------------------- *)

\* a loop that keeps the timestamp of the last point
latest_loop_last(ts, i, latest) == IF ts = <<>> THEN latest ELSE ts[Len(ts)]

RECURSIVE latest_loop(_, _, _)
\* for (i = 0; i < num_fences; ++i) if (ts[i] > latest) latest = ts[i];
latest_loop(ts, i, latest) ==
    IF i > Len(ts) THEN latest
    ELSE latest_loop(ts, i + 1, IF ts[i] > latest THEN ts[i] ELSE latest)

\* a query that does not look at the result of the second ioctl
fence_timestamp_partial(info) ==
    IF ~info.ok1 THEN 0 ELSE latest_loop(info.ts, 1, 0)

\* info: what the kernel answers for the descriptor: whether the first and
\* the second SYNC_IOC_FILE_INFO succeed, and the points' timestamps
fence_timestamp(info) ==
    IF ~info.ok1 THEN 0
    ELSE IF ~info.ok2 THEN 0
    ELSE latest_loop(info.ts, 1, 0)

\* sequences of 1..n elements of S
SeqsUpTo(S, n) == UNION {[1..k -> S] : k \in 1..n}

\* answers of the kernel with point timestamps in S
SyncInfos(S) ==
    {[ok1 |-> FALSE, ok2 |-> TRUE, ts |-> <<>>]}
    \cup {[ok1 |-> TRUE, ok2 |-> b, ts |-> ts] :
            b \in BOOLEAN, ts \in SeqsUpTo(S, MaxPoints)}

\* when the points of a sync file signalled, relative to the last of them:
\* one point; two points, the later one last; two points, the later first
Offsets == {<<0>>, <<-1, 0>>, <<0, -1>>}

\* the answers the main loop gets for a sync file, relative to the time
\* its last point signalled at: either ioctl fails, or the points are told
Shapes ==
    {[ok1 |-> FALSE, ok2 |-> TRUE, ts |-> <<>>],
     [ok1 |-> TRUE, ok2 |-> FALSE, ts |-> <<0>>]}
    \cup {[ok1 |-> TRUE, ok2 |-> TRUE, ts |-> o] : o \in Offsets}

\* the answer of shape i for a sync file that signalled at time s
At(i, s) == [i EXCEPT !.ts = [k \in DOMAIN i.ts |-> s + i.ts[k]]]

(* ------------------------------ tracker ------------------------------- *)

\* calloc(cap, sizeof *fds)
ZeroPollfd == [fd |-> 0, events |-> {}, revents |-> {}]
\* calloc(cap, sizeof *fences)
ZeroFence == [frame_num |-> 0, start_ns |-> 0]

\* an allocation that does not carry the old contents over
realloc_fresh(a, newcap, fill) == [i \in 0..(newcap - 1) |-> fill]

\* realloc(): the old contents, then indeterminate new elements
realloc(a, newcap, fill) ==
    [i \in 0..(newcap - 1) |-> IF i \in DOMAIN a THEN a[i] ELSE fill]

\* what an indeterminate struct pollfd may hold in the field the loop never
\* initialises (revents); fd and events are written before they are read
Indeterminate == {ZeroPollfd, [ZeroPollfd EXCEPT !.revents = {"POLLIN"}]}

\* a tracker that grows one entry too late
grow_late(t, fill) ==
    IF t.len > t.cap
    THEN [t EXCEPT !.cap = t.cap * 2,
                   !.fds = realloc(t.fds, t.cap * 2, fill),
                   !.fences = realloc(t.fences, t.cap * 2, ZeroFence)]
    ELSE t

\* if (len == cap) { cap *= 2; realloc both }
grow(t, fill) ==
    IF t.len = t.cap
    THEN [t EXCEPT !.cap = t.cap * 2,
                   !.fds = realloc(t.fds, t.cap * 2, fill),
                   !.fences = realloc(t.fences, t.cap * 2, ZeroFence)]
    ELSE t

\* a store that writes the entry below the end
store_below(t, fd, fnum, start) ==
    [t EXCEPT !.fds[t.len - 1].fd = fd,
              !.fds[t.len - 1].events = {"POLLIN"},
              !.fences[t.len - 1] = [frame_num |-> fnum, start_ns |-> start],
              !.len = t.len + 1]

\* fds[len] = {fd, POLLIN}; fences[len] = {frame_num, start_ns}; ++len
store(t, fd, fnum, start) ==
    [t EXCEPT !.fds[t.len].fd = fd,
              !.fds[t.len].events = {"POLLIN"},
              !.fences[t.len] = [frame_num |-> fnum, start_ns |-> start],
              !.len = t.len + 1]

\* the whole of lines 565-583, when the allocation succeeds
track(t, fd, fnum, start, fill) == store(grow(t, fill), fd, fnum, start)

\* a removal that moves the last entry into the gap
compact_last(t, i) ==
    [t EXCEPT !.fds[i] = t.fds[t.len - 1],
              !.fences[i] = t.fences[t.len - 1],
              !.len = t.len - 1]

\* a compaction that shifts the descriptors and leaves the fence data
compact_fds_only(t, i) ==
    [t EXCEPT !.fds = [j \in DOMAIN t.fds |->
                          IF j >= i /\ j < t.len - 1 THEN t.fds[j + 1] ELSE t.fds[j]],
              !.len = t.len - 1]

\* for (j = i; j < len - 1; ++j) { fds[j] = fds[j+1]; fences[j] = fences[j+1]; } --len
compact(t, i) ==
    [t EXCEPT !.fds = [j \in DOMAIN t.fds |->
                          IF j >= i /\ j < t.len - 1 THEN t.fds[j + 1] ELSE t.fds[j]],
              !.fences = [j \in DOMAIN t.fences |->
                          IF j >= i /\ j < t.len - 1 THEN t.fences[j + 1]
                          ELSE t.fences[j]],
              !.len = t.len - 1]

\* the kernel's answer for a descriptor the oracle does not cover
answer(info, fd) ==
    IF fd \in DOMAIN info THEN info[fd] ELSE [ok1 |-> FALSE, ok2 |-> TRUE, ts |-> <<>>]

\* a reap that prints the fence record one position lower
reap_one_below(t, i, info) ==
    [t EXCEPT !.closed = Append(@, t.fds[i].fd),
              !.out = Append(@, [frame_num |-> t.fences[i - 1].frame_num,
                                 start_ns |-> t.fences[i - 1].start_ns,
                                 end_ns |-> fence_timestamp(answer(info, t.fds[i].fd))])]

\* one ready entry: query, close, print
reap_one(t, i, info) ==
    [t EXCEPT !.closed = Append(@, t.fds[i].fd),
              !.out = Append(@, [frame_num |-> t.fences[i].frame_num,
                                 start_ns |-> t.fences[i].start_ns,
                                 end_ns |-> fence_timestamp(answer(info, t.fds[i].fd))])]

\* if (!(fds[i].revents & POLLIN))
is_ready(t, i) == "POLLIN" \in t.fds[i].revents

RECURSIVE reap_skip(_, _, _)
\* a reap loop that steps to the next position after a removal
reap_skip(t, i, info) ==
    IF ~(i < t.len) THEN t
    ELSE IF ~is_ready(t, i) THEN reap_skip(t, i + 1, info)
    ELSE reap_skip(compact(reap_one(t, i, info), i), i + 1, info)

RECURSIVE reap(_, _, _)
\* for (i = 1; i < len;): info maps a descriptor to the kernel's answer
reap(t, i, info) ==
    IF ~(i < t.len) THEN t
    ELSE IF ~is_ready(t, i) THEN reap(t, i + 1, info)
    ELSE reap(compact(reap_one(t, i, info), i), i, info)

(* --------------------------- initial state ---------------------------- *)

\* sizes the server proposes: 0x0 leaves the choice to the client
Sizes == {<<0, 0>>, <<ServerWidth, ServerHeight>>}

\* if (fixed_size) {...}  if (width == 0) width = 500;  if (height == 0) ...
apply_size(st) ==
    LET w == IF fixed_size THEN fixed_width ELSE st.width
        h == IF fixed_size THEN fixed_height ELSE st.height
    IN [st EXCEPT !.width = IF w = 0 THEN DefaultSize ELSE w,
                  !.height = IF h = 0 THEN DefaultSize ELSE h]

\* st.fence = -1 and fds[1].fd = -1 of src/main.c: no descriptor
NoFd == -1

\* src/main.c when it reaches the draw of line 415: the roundtrip of line
\* 359 has delivered the first configure, of size sz
StartSimple(sz) ==
    /\ m_st = [running |-> TRUE, frame |-> NULL,
               conf |-> [serial |-> 1, width |-> sz[1], height |-> sz[2]],
               submit_time_ns |-> 0, fence |-> 0]
    /\ m_fds = [i \in 0..1 |-> ZeroPollfd]
    /\ m_pc = "draw"
    /\ m_wire = <<>>
    /\ m_cb = {}
    /\ m_hup = FALSE
    /\ m_nev = 0
    /\ m_signaled = <<>>
    /\ m_nclose = <<>>
    /\ m_now = 1
    /\ m_out = <<>>
    /\ m_ndraw = 0

\* the state main() is in when it reaches the loop, for one command line
\* (u, k, f), one capability probe result and one initial configure
\* (first: whether the roundtrip of line 397 delivered one; sz: its size);
\* ne: what of the budget MaxEvents is spent
Start(u, k, f, hasf, first, sz, ne) ==
    /\ unsynchronized = u
    /\ max_frames = k
    /\ fixed_size = f
    /\ fixed_width = (IF f THEN FixedWidth ELSE 0)
    /\ fixed_height = (IF f THEN FixedHeight ELSE 0)
    /\ egl_has_fences = hasf
    /\ wl_state = apply_size([close |-> FALSE,
                              serial |-> IF first THEN 1 ELSE 0,
                              width |-> IF first THEN sz[1] ELSE 0,
                              height |-> IF first THEN sz[2] ELSE 0,
                              frame |-> NULL])
    /\ len = 1
    /\ cap = InitialCap
    /\ fds = [i \in 0..(InitialCap - 1) |->
                IF i = 0 THEN [fd |-> WlFd, events |-> {"POLLIN", "POLLOUT"},
                               revents |-> {}]
                ELSE ZeroPollfd]
    /\ fences = [i \in 0..(InitialCap - 1) |-> ZeroFence]
    /\ frame_num = 0
    /\ pc = "while"
    /\ reading = 0
    /\ wire = <<>>
    /\ queue = <<>>
    /\ srv_cb = {}
    /\ srv_serial = (IF first THEN 1 ELSE 0)
    /\ nevents = ne
    /\ hup = FALSE
    /\ signaled = <<>>
    /\ nclose = <<>>
    /\ now = 1
    /\ nsubmit = 0
    /\ ndone = 0
    /\ acks = <<>>
    /\ out = <<>>
    /\ vp = <<0, 0>>
    /\ released = <<>>
    /\ exit_code = -1
    /\ ended = ""
    /\ flushed = ""
    /\ reported = {}

NoCall == [ok1 |-> FALSE, ok2 |-> FALSE, ts |-> <<>>]

\* has_ext() not called yet
NoProbe == [exts |-> <<>>, ext |-> <<>>, done |-> FALSE]

\* The runs explored.  Without fence support: both modes, every -l from -1
\* to MaxFrames, with and without -f, every initial configure.  With fence
\* support: both modes, -l MaxFrames, no -f, an initial configure of the
\* server's size (what -f and the sizes change does not reach the tracker),
\* and one event or failure at most.
Init ==
    /\ \/ \E u \in BOOLEAN, k \in (-1)..MaxFrames, f \in BOOLEAN,
             first \in BOOLEAN, sz \in Sizes :
                Start(u, k, f, FALSE, first, sz, 0)
       \/ \E u \in BOOLEAN :
                Start(u, MaxFrames, FALSE, TRUE, TRUE,
                      <<ServerWidth, ServerHeight>>, MaxEvents - 1)
    /\ ft_in = NoCall
    /\ ft_ret = 0
    /\ StartSimple(<<0, 0>>)
    /\ he_in = NoProbe
    /\ he_ret = FALSE

(* ------------------------------ main loop ----------------------------- *)

\* the variables a stage of the loop leaves alone, in groups
env == <<wire, queue, srv_cb, srv_serial, nevents, hup, signaled, nclose, now>>
seen == <<nsubmit, ndone, acks, out, vp, released, exit_code>>

\* a loop that runs while frame_num <= max_frames
loop_condition_inclusive == ~wl_state.close /\ frame_num <= max_frames

\* a loop that does not look at wl_state.close
loop_condition_deaf == frame_num < max_frames

\* while (!wl_state.close && frame_num < max_frames)
loop_condition == ~wl_state.close /\ frame_num < max_frames

While ==
    /\ pc = "while"
    /\ pc' = IF loop_condition THEN "render" ELSE "teardown"
    /\ ended' = IF loop_condition THEN ended ELSE "condition"
    /\ UNCHANGED <<config, wl_state, tracker, frame_num, reading, env, seen,
                   flushed, reported, ftvars, mainc, probe>>

\* a render block entered in every iteration
should_render_always == TRUE

\* if (unsynchronized || !wl_state.frame)
should_render == unsynchronized \/ wl_state.frame = NULL

\* a render block that asks for a frame callback in both modes
register_frame_always(st, cb) == [st EXCEPT !.frame = cb]

\* a render block that asks for a frame callback in the wrong mode
register_frame_unsync(st, cb) ==
    IF unsynchronized THEN [st EXCEPT !.frame = cb] ELSE st

\* if (!unsynchronized) wl_state.frame = wl_surface_frame(surface_wl);
register_frame(st, cb) ==
    IF ~unsynchronized THEN [st EXCEPT !.frame = cb] ELSE st

\* a resize that leaves the serial pending
resize_window_keep(st) == IF st.serial # 0 THEN apply_size(st) ELSE st

\* if (wl_state.serial) { ...; ack_configure(serial); wl_state.serial = 0; }
resize_window(st) ==
    IF st.serial # 0 THEN [apply_size(st) EXCEPT !.serial = 0] ELSE st

\* the serial xdg_surface_ack_configure is called with, if it is called
ack_configure(st) == IF st.serial # 0 THEN <<st.serial>> ELSE <<>>

\* a tracker that stores a fence for every frame
should_track_always == TRUE

\* if (egl_has_fences), line 565
should_track == egl_has_fences

\* the render block, lines 514-586
Submit ==
    \E n \in {0, Len(wire)}, fill \in Indeterminate, alloc_ok \in BOOLEAN :
        LET cb == nsubmit + 1
            st1 == register_frame(wl_state, cb)
            st2 == resize_window(st1)
            start_ns == IF egl_has_fences THEN now ELSE 0
            fd == WlFd + 1 + frame_num
            t == [fds |-> fds, fences |-> fences, len |-> len, cap |-> cap]
            failed == should_track /\ len = cap /\ ~alloc_ok
            t1 == IF should_track /\ ~failed
                  THEN track(t, fd, frame_num, start_ns, fill) ELSE t
        IN  /\ IF should_track /\ len = cap
               THEN alloc_ok \/ nevents < MaxEvents
               ELSE fill = ZeroPollfd /\ alloc_ok
            /\ wl_state' = st2
            /\ srv_cb' = (IF st1.frame # wl_state.frame THEN srv_cb \cup {cb}
                          ELSE srv_cb)
            /\ acks' = acks \o ack_configure(st1)
            /\ vp' = <<st2.width, st2.height>>
            /\ now' = (IF egl_has_fences THEN now + 1 ELSE now)
            \* eglSwapBuffers: presents; the EGL platform may read the socket
            \* (all that has arrived) and leave the events of the default
            \* queue queued
            /\ nsubmit' = nsubmit + 1
            /\ queue' = queue \o SubSeq(wire, 1, n)
            /\ wire' = SubSeq(wire, n + 1, Len(wire))
            /\ fds' = t1.fds
            /\ fences' = t1.fences
            /\ len' = t1.len
            /\ cap' = t1.cap
            /\ nclose' = (IF should_track /\ ~failed
                          THEN nclose @@ (fd :> 0) ELSE nclose)
            /\ IF failed
               THEN /\ pc' = "done"
                    /\ exit_code' = 1
                    /\ ended' = "realloc"
                    /\ frame_num' = frame_num
                    /\ nevents' = nevents + 1
               ELSE /\ pc' = "prepare"
                    /\ exit_code' = exit_code
                    /\ ended' = ended
                    /\ frame_num' = frame_num + 1
                    /\ nevents' = nevents
            /\ UNCHANGED <<config, reading, srv_serial, hup, signaled, ndone,
                           out, released, flushed, reported, ftvars, mainc, probe>>

Render ==
    /\ pc = "render"
    /\ IF should_render
       THEN Submit
       ELSE /\ pc' = "prepare"
            /\ UNCHANGED <<config, wl_state, tracker, frame_num, reading, env,
                           seen, ended, flushed, reported,
                   ftvars, mainc, probe>>

\* a cancel that leaves the read intent held
wl_display_cancel_read_held(r) == r

\* the read intent: wl_display_prepare_read takes it, wl_display_cancel_read
\* and wl_display_read_events give it back
wl_display_prepare_read(r) == r + 1
wl_display_cancel_read(r) == r - 1
wl_display_read_events(r) == r - 1

\* a prepare_read whose failure is not followed by a dispatch: no read
\* intent is taken and the queued events stay queued
PrepareReadOnce ==
    /\ pc = "prepare"
    /\ reading' = (IF queue = <<>> THEN wl_display_prepare_read(reading)
                   ELSE reading)
    /\ pc' = "flush"
    /\ UNCHANGED <<config, wl_state, tracker, frame_num, env, seen, ended,
                   flushed, reported, ftvars, mainc, probe>>

\* while (wl_display_prepare_read() != 0 && errno == EAGAIN)
\*     wl_display_dispatch_pending();
PrepareRead ==
    /\ pc = "prepare"
    /\ wl_state' = wl_display_dispatch_pending(wl_state, queue)
    /\ ndone' = ndone + CountDone(queue)
    /\ queue' = <<>>
    /\ reading' = wl_display_prepare_read(reading)
    /\ pc' = "flush"
    /\ UNCHANGED <<config, tracker, frame_num, wire, srv_cb, srv_serial, nevents,
                   hup, signaled, nclose, now, nsubmit, acks, out, vp,
                   released, exit_code, ended, flushed, reported,
                   ftvars, mainc, probe>>

\* results of the flush loop: 0, -1/EAGAIN, -1/another errno
FlushResults == {"ok", "EAGAIN", "EPIPE"}

\* a flush that arms POLLOUT and never clears it
flush_events_sticky(ev, r) == IF r = "EAGAIN" THEN ev \cup {"POLLOUT"} ELSE ev

\* fds[0].events after the flush
flush_events(ev, r) ==
    IF r = "EAGAIN" THEN ev \cup {"POLLOUT"} ELSE ev \ {"POLLOUT"}

\* lines 591-606.  A flush fails for good on a broken connection only.
Flush ==
    /\ pc = "flush"
    /\ \E r \in FlushResults :
        /\ r = "EPIPE" => hup
        /\ r = "EAGAIN" => nevents < MaxEvents
        /\ nevents' = (IF r = "EAGAIN" THEN nevents + 1 ELSE nevents)
        /\ flushed' = r
        /\ IF r = "EPIPE"
           THEN /\ reading' = wl_display_cancel_read(reading)
                /\ pc' = "teardown"
                /\ ended' = "flush"
                /\ fds' = fds
           ELSE /\ reading' = reading
                /\ ended' = ended
                /\ pc' = "poll"
                /\ fds' = [fds EXCEPT ![0].events = flush_events(@, r)]
    /\ UNCHANGED <<config, wl_state, len, cap, fences, frame_num, wire, queue,
                   srv_cb, srv_serial, hup, signaled, nclose, now, seen,
                   reported, ftvars, mainc, probe>>

\* what the kernel reports for fds[i]; wout: the socket is writable
poll_revents(i, wout) ==
    IF i = 0
    THEN (IF wire # <<>> THEN {"POLLIN"} ELSE {})
         \cup (IF wout /\ "POLLOUT" \in fds[0].events THEN {"POLLOUT"} ELSE {})
         \cup (IF hup THEN {"POLLHUP"} ELSE {})
    ELSE IF fds[i].fd \in DOMAIN signaled /\ "POLLIN" \in fds[i].events
         THEN {"POLLIN"} ELSE {}

\* a poll with the timeouts of the two modes swapped
poll_timeout_swapped == IF unsynchronized THEN -1 ELSE 0

\* poll(fds, len, unsynchronized ? 0 : -1)
poll_timeout == IF unsynchronized THEN 0 ELSE -1

\* if (fds[0].revents & (POLLERR | POLLHUP))
socket_failed(f) == f[0].revents \cap {"POLLERR", "POLLHUP"} # {}

\* lines 608-618.  res: poll returned >= 0, -1/EINTR, or -1 with another
\* errno.  written: the kernel stored the revents; it does when poll
\* succeeds, it does not on an error that ends the loop, and on EINTR it may
\* (then every revents is 0) or may not (the fields keep what they held)
Poll ==
    /\ pc = "poll"
    /\ \E res \in {"events", "EINTR", "error"}, written, wout \in BOOLEAN :
        LET polled == [i \in DOMAIN fds |->
                        IF i < len /\ written
                        THEN [fds[i] EXCEPT !.revents =
                                IF res = "events" THEN poll_revents(i, wout)
                                ELSE {}]
                        ELSE fds[i]]
            fatal == res = "error" \/ socket_failed(polled)
        IN  /\ IF "POLLOUT" \in fds[0].events THEN TRUE ELSE wout
            /\ res = "events" => written
            /\ res = "error" => ~written
            /\ res # "events" => nevents < MaxEvents
            /\ (res = "events" /\ poll_timeout = -1)
                    => \E i \in 0..(len - 1) : poll_revents(i, wout) # {}
            /\ nevents' = (IF res = "events" THEN nevents ELSE nevents + 1)
            /\ fds' = polled
            /\ reported' = (IF res = "events"
                            THEN {fds[i].fd : i \in {j \in 0..(len - 1) :
                                        "POLLIN" \in poll_revents(j, wout)}}
                            ELSE {})
            /\ reading' = (IF fatal THEN wl_display_cancel_read(reading)
                           ELSE reading)
            /\ pc' = (IF fatal THEN "teardown" ELSE "read")
            /\ ended' = (IF res = "error" THEN "poll"
                         ELSE IF fatal THEN "socket" ELSE ended)
    /\ UNCHANGED <<config, wl_state, len, cap, fences, frame_num, wire, queue,
                   srv_cb, srv_serial, hup, signaled, nclose, now, seen,
                   flushed, ftvars, mainc, probe>>

\* wl_display_read_events(); wl_display_dispatch_pending();
ReadEvents ==
    /\ pc = "read"
    /\ wl_state' = wl_display_dispatch_pending(wl_state, queue \o wire)
    /\ ndone' = ndone + CountDone(queue \o wire)
    /\ wire' = <<>>
    /\ queue' = <<>>
    /\ reading' = wl_display_read_events(reading)
    /\ pc' = "reap"
    /\ UNCHANGED <<config, tracker, frame_num, srv_cb, srv_serial, nevents, hup,
                   signaled, nclose, now, nsubmit, acks, out, vp,
                   released, exit_code, ended, flushed, reported,
                   ftvars, mainc, probe>>

\* close(fd) called on every descriptor of s, in order
RECURSIVE close_all(_, _)
close_all(nc, s) ==
    IF s = <<>> THEN nc
    ELSE close_all(IF Head(s) \in DOMAIN nc
                   THEN [nc EXCEPT ![Head(s)] = @ + 1]
                   ELSE nc @@ (Head(s) :> 1),
                   Tail(s))

\* descriptors of the entries the last poll flagged
ReadyFds == {fds[i].fd : i \in {j \in 1..(len - 1) : "POLLIN" \in fds[j].revents}}

\* the answer for a sync file that has not signalled: every fence of it
\* has timestamp_ns 0
Pending(i) == [i EXCEPT !.ts = [k \in DOMAIN i.ts |-> 0]]

\* what the kernel may answer for the flagged descriptors
Answers ==
    {[fd \in ReadyFds |-> IF fd \in DOMAIN signaled
                          THEN At(shape[fd], signaled[fd])
                          ELSE Pending(shape[fd])] :
        shape \in [ReadyFds -> Shapes]}

\* the ioctl calls of info that fail
Failures(info) ==
    Cardinality({fd \in DOMAIN info : ~(info[fd].ok1 /\ info[fd].ok2)})

\* lines 625-644
Reap ==
    /\ pc = "reap"
    /\ \E info \in Answers :
        LET r == reap([fds |-> fds, fences |-> fences, len |-> len, cap |-> cap,
                       closed |-> <<>>, out |-> out], 1, info)
        IN  /\ nevents + Failures(info) <= MaxEvents
            /\ nevents' = nevents + Failures(info)
            /\ fds' = r.fds
            /\ fences' = r.fences
            /\ len' = r.len
            /\ cap' = r.cap
            /\ out' = r.out
            /\ nclose' = close_all(nclose, r.closed)
    /\ pc' = "while"
    /\ UNCHANGED <<config, wl_state, frame_num, reading, wire, queue, srv_cb,
                   srv_serial, hup, signaled, now, nsubmit, ndone, acks, vp,
                   released, exit_code, ended, flushed, reported,
                   ftvars, mainc, probe>>

\* descriptors at positions 1..len-1
tracked_fds == [k \in 1..(len - 1) |-> fds[k].fd]

\* a teardown that closes the fence descriptors last
TeardownFencesLast ==
    /\ pc = "teardown"
    /\ srv_cb' = {}
    /\ nclose' = close_all(nclose, tracked_fds)
    /\ released' = <<"frame", "gl_program", "egl_surface", "egl_context",
                     "wl_surface", "wl_globals", "wl_display", "fences">>
    /\ exit_code' = 0
    /\ pc' = "done"
    /\ UNCHANGED <<config, wl_state, tracker, frame_num, reading, wire, queue,
                   srv_serial, nevents, hup, signaled, now, nsubmit, ndone,
                   acks, out, vp, ended, flushed, reported,
                   ftvars, mainc, probe>>

\* lines 647-674; main() then returns 0
Teardown ==
    /\ pc = "teardown"
    /\ srv_cb' = {}
    /\ nclose' = close_all(nclose, tracked_fds)
    /\ released' = <<"frame", "fences", "gl_program", "egl_surface",
                     "wl_surface", "egl_context", "wl_globals", "wl_display">>
    /\ exit_code' = 0
    /\ pc' = "done"
    /\ UNCHANGED <<config, wl_state, tracker, frame_num, reading, wire, queue,
                   srv_serial, nevents, hup, signaled, now, nsubmit, ndone,
                   acks, out, vp, ended, flushed, reported,
                   ftvars, mainc, probe>>

(* ---------------------------- environment ----------------------------- *)

\* The program observes the socket in eglSwapBuffers and in poll (what
\* wl_display_read_events reads is what poll saw or what arrives later, and
\* that is read by the next iteration), the fences in poll, a broken
\* connection in wl_display_flush and poll.  A step of the environment taken
\* elsewhere has the effect of the same step taken right before the next
\* observation, so the environment steps are placed there.
SocketObserved == pc \in {"render", "poll"}
FencesObserved == pc = "poll"
ConnectionObserved == pc \in {"flush", "poll"}

\* the server sends an event
send(m) ==
    /\ SocketObserved
    /\ ~hup
    /\ wire' = Append(wire, m)
    /\ UNCHANGED <<config, wl_state, tracker, frame_num, pc, reading, queue,
                   hup, signaled, nclose, now, seen, ended, flushed, reported,
                   ftvars, mainc, probe>>

ServerConfigure ==
    /\ nevents < MaxEvents
    /\ send(Msg("configure", srv_serial + 1, 0))
    /\ srv_serial' = srv_serial + 1
    /\ nevents' = nevents + 1
    /\ srv_cb' = srv_cb

ServerToplevelConfigure ==
    /\ nevents < MaxEvents
    /\ \E sz \in Sizes : send(Msg("toplevel_configure", sz[1], sz[2]))
    /\ nevents' = nevents + 1
    /\ UNCHANGED <<srv_serial, srv_cb>>

ServerClose ==
    /\ nevents < MaxEvents
    /\ send(Msg("close", 0, 0))
    /\ nevents' = nevents + 1
    /\ UNCHANGED <<srv_serial, srv_cb>>

\* the server fires a frame callback it holds (one-shot)
ServerFrameDone ==
    /\ \E cb \in srv_cb :
        /\ send(Msg("done", cb, 0))
        /\ srv_cb' = srv_cb \ {cb}
    /\ UNCHANGED <<srv_serial, nevents>>

\* the connection breaks
ServerHangup ==
    /\ ConnectionObserved
    /\ ~hup
    /\ nevents < MaxEvents
    /\ hup' = TRUE
    /\ nevents' = nevents + 1
    /\ UNCHANGED <<config, wl_state, tracker, frame_num, pc, reading, wire,
                   queue, srv_cb, srv_serial, signaled, nclose, now,
                   seen, ended, flushed, reported,
                   ftvars, mainc, probe>>

\* the GPU finishes the work a tracked fence waits for
signal(fd) ==
    /\ FencesObserved
    /\ fd \notin DOMAIN signaled
    /\ signaled' = signaled @@ (fd :> now)
    /\ UNCHANGED <<config, wl_state, tracker, frame_num, pc, reading, wire,
                   queue, srv_cb, srv_serial, nevents, hup, nclose, now,
                   seen, ended, flushed, reported,
                   ftvars, mainc, probe>>

FenceSignal == \E i \in 1..(len - 1) : signal(fds[i].fd)

Next ==
    \/ While \/ Render \/ PrepareRead \/ Flush \/ Poll \/ ReadEvents \/ Reap
    \/ Teardown
    \/ ServerConfigure \/ ServerToplevelConfigure \/ ServerClose
    \/ ServerFrameDone \/ ServerHangup \/ FenceSignal

Spec == Init /\ [][Next]_vars

\* max(K, 0)
FrameBudget == IF max_frames > 0 THEN max_frames ELSE 0

(* -------------------------------- C1 ---------------------------------- *)

\* events sent to the client and not dispatched yet
InFlight == queue \o wire

\* frame callbacks requested whose done event has not been dispatched
Outstanding ==
    srv_cb \cup {InFlight[k].a :
                    k \in {j \in DOMAIN InFlight : InFlight[j].type = "done"}}

\* C1: in synchronized mode at most one frame callback is outstanding in
\* every reachable state, the number of submissions never exceeds the
\* number of fired callbacks plus one, and a step that submits a frame
\* starts with no callback outstanding (every earlier one has fired).
OneFrameInFlight ==
    /\ [](~unsynchronized =>
            /\ Cardinality(Outstanding) <= 1
            /\ nsubmit <= ndone + 1)
    /\ [][(~unsynchronized /\ nsubmit' # nsubmit) =>
            /\ Outstanding = {}
            /\ wl_state.frame = NULL
            /\ nsubmit = ndone
            /\ Cardinality(Outstanding') = 1]_vars

\* an iteration of a synchronized run that starts with the callback of the
\* first frame outstanding, and so must not submit
OneFrameInFlightWitness ==
    /\ ~unsynchronized
    /\ pc = "render"
    /\ wl_state.frame # NULL
    /\ Cardinality(Outstanding) = 1
    /\ nsubmit = 1
    /\ ndone = 0

(* -------------------------------- C2 ---------------------------------- *)

\* C2: in unsynchronized mode every loop iteration submits a frame (the
\* step that leaves the render stage adds one submission), no frame
\* callback is ever requested and the frame slot stays empty, whatever the
\* number of tracked fences and whatever events were dispatched.
UnsyncAlwaysSubmits ==
    /\ [](unsynchronized => wl_state.frame = NULL /\ Outstanding = {})
    /\ [][(unsynchronized /\ pc = "render" /\ pc' # "render") =>
            nsubmit' = nsubmit + 1]_vars

\* an unsynchronized run in its second iteration, after the second
\* submission, with both fences still tracked, after an event or a failure
UnsyncAlwaysSubmitsWitness ==
    /\ unsynchronized
    /\ pc = "flush"
    /\ nsubmit = 2
    /\ len = 3
    /\ nevents = MaxEvents
    /\ wl_state.frame = NULL

(* -------------------------------- C3 ---------------------------------- *)

StagesLeft ==
    CASE pc = "render" -> 0
      [] pc = "while" -> 1
      [] pc = "reap" -> 2
      [] pc = "read" -> 3
      [] pc = "poll" -> 4
      [] pc = "flush" -> 5
      [] pc = "prepare" -> 6
      [] OTHER -> 0

\* steps the program can still take, at most
StepsLeft ==
    CASE pc = "done" -> 0
      [] pc = "teardown" -> 1
      [] OTHER -> 2 + 7 * (FrameBudget - frame_num) + StagesLeft

NeverMoreThanK ==
    /\ [](nsubmit <= FrameBudget)
    /\ [](pc = "render" => ~wl_state.close /\ nsubmit < max_frames)
    /\ [][(pc = "while" /\ (wl_state.close \/ nsubmit >= max_frames)) =>
            pc' \in {"while", "teardown"}]_vars

\* a synchronized run stopped by a close request before its K submissions
NeverMoreThanKWitness ==
    /\ ~unsynchronized
    /\ pc = "done"
    /\ ended = "condition"
    /\ wl_state.close
    /\ nsubmit >= 1
    /\ nsubmit < max_frames

(* ------------------- the tracker over many frames --------------------- *)

\* An unsynchronized run of GrowFrames frames with fence support against a
\* server that sends nothing and a slow GPU: no fence signals before
\* GrowQuiet frames are submitted, and at most GrowSignals fences signal.
\* One failure is injected at most.
InitGrow ==
    /\ Start(TRUE, GrowFrames, FALSE, TRUE, TRUE, <<ServerWidth, ServerHeight>>,
             MaxEvents - 1)
    /\ ft_in = NoCall
    /\ ft_ret = 0
    /\ StartSimple(<<0, 0>>)
    /\ he_in = NoProbe
    /\ he_ret = FALSE

GrowSignal ==
    /\ frame_num >= GrowQuiet
    /\ Cardinality(DOMAIN signaled) < GrowSignals
    /\ FenceSignal

NextGrow ==
    \/ While \/ Render \/ PrepareRead \/ Flush \/ Poll \/ ReadEvents \/ Reap
    \/ Teardown \/ GrowSignal

SpecGrow == InitGrow /\ [][NextGrow]_vars

(* -------------------------------- C5 ---------------------------------- *)

Entries == [k \in 1..(len - 1) |-> [fd |-> fds[k].fd, fence |-> fences[k]]]

\* an entry the last poll did not flag
Unflagged(e) == e.fd \notin ReadyFds

TrackKeepsEntries ==
    /\ [][len' > len =>
            /\ len' = len + 1
            /\ SubSeq(Entries', 1, len - 1) = Entries
            /\ Entries'[len] =
                    [fd |-> WlFd + 1 + frame_num,
                     fence |-> [frame_num |-> frame_num, start_ns |-> now]]
            /\ fds'[0].fd = fds[0].fd
            /\ cap' = (IF len = cap THEN 2 * cap ELSE cap)]_vars
    /\ []((frame_num = InitialCap + 1 /\ out = <<>>) =>
            /\ cap = 2 * InitialCap
            /\ len = InitialCap + 2
            /\ \A k \in 1..(InitialCap + 1) :
                    Entries[k] = [fd |-> WlFd + k,
                                  fence |-> [frame_num |-> k - 1,
                                             start_ns |-> k]])

\* InitialCap + 1 fences tracked, none reaped, the capacity doubled
TrackKeepsEntriesWitness ==
    /\ frame_num = InitialCap + 1
    /\ out = <<>>
    /\ len = InitialCap + 2
    /\ cap = 2 * InitialCap

(* -------------------------------- C8 ---------------------------------- *)

\* the descriptors at positions 1..len-1
Tracked == {fds[k].fd : k \in 1..(len - 1)}

\* no descriptor is closed twice, a tracked descriptor is open, and a
\* descriptor that left the tracker was closed
ClosedAtMostOnce ==
    /\ \A fd \in DOMAIN nclose : nclose[fd] <= 1
    /\ pc # "done" => \A fd \in Tracked : fd \in DOMAIN nclose /\ nclose[fd] = 0
    /\ \A fd \in DOMAIN nclose \ Tracked : nclose[fd] = 1

\* C8 as stated: every fence descriptor handed to the tracker is open
\* while tracked and is closed exactly once, by the reap that removes it
\* or by the sweep at shutdown: none is closed twice, none that is tracked
\* is closed, and when main has returned every one has been closed.
FenceClosedExactlyOnce ==
    /\ ClosedAtMostOnce
    /\ pc = "done" => \A fd \in DOMAIN nclose : nclose[fd] = 1

\* what holds of the code: the same, for the runs that reach the teardown
FenceClosedOnceByTeardown ==
    /\ ClosedAtMostOnce
    /\ (pc = "done" /\ ended # "realloc") =>
            \A fd \in DOMAIN nclose : nclose[fd] = 1

(* -------------------------------- C9 ---------------------------------- *)

\* a configure event
IsConfigure(m) == m.type = "configure"

\* the serial of the last configure dispatched (the server numbers them
\* 1, 2, ...), 0 if there was none
LastReceived == srv_serial - Len(SelectSeq(InFlight, IsConfigure))

\* C9: the serial of the last configure received is either pending and
\* not acknowledged yet, or acknowledged last and no longer pending; the
\* acknowledged serials increase, so none is acknowledged twice and one
\* superseded before a submission never is; a submission acknowledges the
\* pending serial and leaves none pending, and no other step acknowledges.
AckLatestOnce ==
    /\ [](/\ \A j, k \in DOMAIN acks : j < k => acks[j] < acks[k]
           /\ IF LastReceived = 0
              THEN wl_state.serial = 0 /\ acks = <<>>
              ELSE \/ /\ wl_state.serial = LastReceived
                       /\ \A i \in DOMAIN acks : acks[i] < LastReceived
                    \/ /\ wl_state.serial = 0
                       /\ acks # <<>>
                       /\ acks[Len(acks)] = LastReceived)
    /\ [][IF nsubmit' # nsubmit
           THEN /\ wl_state'.serial = 0
                /\ acks' = (IF wl_state.serial # 0
                            THEN Append(acks, wl_state.serial) ELSE acks)
           ELSE acks' = acks]_vars

\* two configures arrived between the first and the second submission:
\* the second submission acknowledged the later one only
AckLatestOnceWitness ==
    /\ nsubmit = 2
    /\ srv_serial = 3
    /\ acks = <<1, 3>>
    /\ wl_state.serial = 0

(* ---------------------- fence_timestamp on its own -------------------- *)

\* the answers of the kernel fence_timestamp is called on: up to MaxPoints
\* completion points with timestamps 0..FtTimes, either ioctl failing
FtInputs == SyncInfos(0..FtTimes)

InitFT ==
    /\ Start(TRUE, 0, FALSE, TRUE, FALSE, <<0, 0>>, 0)
    /\ ft_in = NoCall
    /\ ft_ret = 0
    /\ StartSimple(<<0, 0>>)
    /\ he_in = NoProbe
    /\ he_ret = FALSE

\* end_ns = fence_timestamp(fd)
FtCall ==
    /\ \E info \in FtInputs :
        /\ ft_in' = info
        /\ ft_ret' = fence_timestamp(info)
    /\ UNCHANGED <<config, wl_state, tracker, frame_num, pc, reading, env, seen,
                   ended, flushed, reported, mainc, probe>>

NextFT == FtCall

SpecFT == InitFT /\ [][NextFT]_vars

(* ------------------------------- C10 ---------------------------------- *)

\* the queries of the last call succeeded and returned at least one point
FtAnswered == ft_in.ok1 /\ ft_in.ok2 /\ ft_in.ts # <<>>

\* C10: for a descriptor whose queries succeed with a non-empty list of
\* completion points, fence_timestamp returns the largest timestamp of the
\* list: no point is later than the result and some point has it; for a
\* single point it returns that point's timestamp.
FenceTimestampIsLatest ==
    FtAnswered =>
        /\ \A k \in DOMAIN ft_in.ts : ft_in.ts[k] <= ft_ret
        /\ \E k \in DOMAIN ft_in.ts : ft_in.ts[k] = ft_ret
        /\ Len(ft_in.ts) = 1 => ft_ret = ft_in.ts[1]

\* the largest timestamp is not the last of several points
FenceTimestampWitness ==
    /\ FtAnswered
    /\ Len(ft_in.ts) = MaxPoints
    /\ ft_in.ts[1] > ft_in.ts[Len(ft_in.ts)]
    /\ ft_ret = ft_in.ts[1]

(* -------------------------------- C11 --------------------------------- *)

\* C11: without the fence capability the loop keeps running: a render
\* stage that is ready presents a frame and advances the frame number and
\* goes on to the rest of the iteration; the tracker length stays 1, no
\* descriptor is tracked or closed and no latency sample is emitted.
NoFencesStillRenders ==
    /\ [](~egl_has_fences =>
            /\ len = 1
            /\ cap = InitialCap
            /\ out = <<>>
            /\ nclose = <<>>
            /\ exit_code # 1)
    /\ [][(~egl_has_fences /\ pc = "render" /\ should_render /\ pc' # pc) =>
            /\ nsubmit' = nsubmit + 1
            /\ frame_num' = frame_num + 1
            /\ pc' = "prepare"]_vars

\* a run without the capability that presented MaxFrames frames and ended
NoFencesStillRendersWitness ==
    /\ ~egl_has_fences
    /\ pc = "done"
    /\ ended = "condition"
    /\ nsubmit = MaxFrames
    /\ frame_num = MaxFrames
    /\ len = 1

(* -------------------------------- C12 --------------------------------- *)

\* the ways the loop ends on an unrecoverable failure
Fatal == {"flush", "poll", "socket", "realloc"}

\* C12 as stated: the exit code is 0 when the loop ended by its condition
\* (close requested or frame count reached) and 1 when it ended on a fatal
\* flush error, a poll failure, a socket error or hangup, or a failed
\* allocation.
ExitCodeTellsFailure ==
    pc = "done" =>
        /\ ended = "condition" => exit_code = 0
        /\ ended \in Fatal => exit_code = 1

\* what holds of the code: 1 after a failed allocation only, 0 otherwise
ExitCodeOfTheCode ==
    pc = "done" => exit_code = (IF ended = "realloc" THEN 1 ELSE 0)

(* -------------------------------- C13 --------------------------------- *)

\* the release order of the teardown, lines 647-673
TeardownSequence ==
    <<"frame", "fences", "gl_program", "egl_surface", "wl_surface",
      "egl_context", "wl_globals", "wl_display">>

\* C13 as stated: every fatal way out of the loop reaches the one teardown
\* sequence, with its sweep that closes every fence descriptor still
\* tracked.
FatalPathsReachTeardown ==
    (pc = "done" /\ ended \in Fatal) =>
        /\ released = TeardownSequence
        /\ \A fd \in Tracked : nclose[fd] = 1

\* what holds of the code: the same for the breaks out of the loop
BreaksReachTeardown ==
    (pc = "done" /\ ended \in Fatal \ {"realloc"}) =>
        /\ released = TeardownSequence
        /\ \A fd \in Tracked : nclose[fd] = 1

(* -------------------------------- C14 --------------------------------- *)

\* C14 as stated: with -f WxH every frame is submitted with a viewport of
\* exactly WxH, whatever sizes and serials the server sent before.
FixedSizeViewport ==
    (fixed_size /\ nsubmit > 0) => vp = <<fixed_width, fixed_height>>

\* what holds of the code: the viewport of a submission that acknowledges
\* a serial is WxH
FixedSizeOnAck ==
    [][(fixed_size /\ nsubmit' # nsubmit /\ acks' # acks) =>
        vp' = <<fixed_width, fixed_height>>]_vars

(* -------------------------------- C15 --------------------------------- *)

\* latency lines with the sentinel 0 as completion time, of fences that
\* had signalled (one that has not has the timestamp 0 itself)
Sentinels(o) ==
    Cardinality({k \in DOMAIN o :
        o[k].end_ns = 0 /\ (WlFd + 1 + o[k].frame_num) \in DOMAIN signaled})

\* C15: a query of which either ioctl fails gives the sentinel 0, not the
\* largest timestamp read so far: a reap pass prints one line with
\* completion time 0 for each failed query (the failures are counted in
\* nevents); and it closes and removes every flagged descriptor, the ones
\* whose query failed included.
FailedQueryStillReaps ==
    [][(pc = "reap" /\ pc' # pc) =>
        /\ Sentinels(out') - Sentinels(out) = nevents' - nevents
        /\ Len(out') - Len(out) = Cardinality(ReadyFds)
        /\ \A fd \in ReadyFds :
            /\ nclose[fd] = 0
            /\ nclose'[fd] = 1
            /\ fd \notin Tracked']_vars

\* a reap whose query failed: the line has completion time 0 although the
\* fence signalled later than time 0, the descriptor is closed and gone
FailedQueryStillReapsWitness ==
    /\ pc = "while"
    /\ Len(out) = 1
    /\ out[1].end_ns = 0
    /\ \E fd \in DOMAIN signaled :
        /\ signaled[fd] > 0
        /\ nclose[fd] = 1
        /\ fd \notin Tracked
    /\ len = 2

(* -------------------------------- C16 --------------------------------- *)

\* C16: whenever the loop is about to poll it holds a read intent and the
\* event queue of the connection is empty: whatever was queued before has
\* been dispatched.
PollWithEmptyQueue ==
    pc = "poll" => reading = 1 /\ queue = <<>>

\* about to poll in the first iteration of an unsynchronized run, after
\* the configure that eglSwapBuffers left queued was dispatched by the
\* prepare_read loop
PollWithEmptyQueueWitness ==
    /\ pc = "poll"
    /\ unsynchronized
    /\ nsubmit = 1
    /\ wire = <<>>
    /\ queue = <<>>
    /\ reading = 1
    /\ wl_state.serial # 0

(* -------------------------------- C17 --------------------------------- *)

\* the stages between wl_display_prepare_read and the read or the cancel
IntentHeld == pc \in {"flush", "poll", "read"}

\* C17: a read intent is held exactly from the prepare_read of an
\* iteration to its read_events or cancel_read, never two at once and none
\* when the loop is left; every fatal exit (from the flush or the poll)
\* gives it back, an intent is given back only when one is held, and one is
\* taken only when none is held.
ReadIntentEndedOnce ==
    /\ [](reading \in {0, 1} /\ (reading = 1 <=> IntentHeld))
    /\ [][(pc' = "teardown" /\ pc \in {"flush", "poll"}) =>
            reading = 1 /\ reading' = 0]_vars
    /\ [][reading' < reading => reading = 1 /\ reading' = 0 /\ IntentHeld]_vars
    /\ [][reading' > reading => reading = 0 /\ reading' = 1]_vars

\* the loop left after a hangup of the server, the read intent given back
ReadIntentEndedOnceWitness ==
    /\ pc = "teardown"
    /\ ended = "socket"
    /\ hup
    /\ reading = 0
    /\ nsubmit >= 1

(* -------------------------------- C18 --------------------------------- *)

\* positions the last poll flagged
Flagged == {k \in 1..(len - 1) : "POLLIN" \in fds[k].revents}

\* C18: a reap pass removes exactly the entries flagged by the poll,
\* closing each once, also when flagged entries are adjacent or last;
\* afterwards no tracked entry is flagged, and every entry that was not
\* flagged is tracked with the same descriptor, events and fence record,
\* and is open.
ReapExactlyFlagged ==
    [][(pc = "reap" /\ pc' # pc) =>
        /\ Tracked' = Tracked \ {fds[k].fd : k \in Flagged}
        /\ len' = len - Cardinality(Flagged)
        /\ \A k \in Flagged : nclose'[fds[k].fd] = nclose[fds[k].fd] + 1
        /\ \A k \in 1..(len' - 1) : "POLLIN" \notin fds'[k].revents
        /\ \A k \in (1..(len - 1)) \ Flagged :
            /\ \E j \in 1..(len' - 1) : fds'[j] = fds[k] /\ fences'[j] = fences[k]
            /\ nclose'[fds[k].fd] = 0]_vars

\* two adjacent entries, the last one included, flagged by one poll and
\* reaped by one pass: both fences signalled at the same time, after the
\* second submission
ReapExactlyFlaggedWitness ==
    /\ pc = "while"
    /\ len = 1
    /\ Len(out) = 2
    /\ out[1].frame_num = 0
    /\ out[2].frame_num = 1
    /\ out[1].end_ns = out[2].end_ns
    /\ out[1].end_ns > out[2].start_ns

(* -------------------------------- C19 --------------------------------- *)

\* the descriptor of the fence of frame f, and the time frame f was
\* submitted at: the clock reads 1 at frame 0 and one more at each frame
FenceOf(f) == WlFd + 1 + f
SubmittedAt(f) == f + 1

PolloutIffFlushBlocked ==
    /\ [](pc = "poll" =>
            /\ flushed \in {"ok", "EAGAIN"}
            /\ "POLLOUT" \in fds[0].events <=> flushed = "EAGAIN")
    /\ [][(pc = "flush" /\ flushed' = "EPIPE") =>
            /\ pc' = "teardown"
            /\ reading' = 0]_vars
    /\ [][ended = "flush" =>
            /\ pc' \in {"teardown", "done"}
            /\ UNCHANGED <<wl_state, tracker, ndone, out, wire, queue>>]_vars

\* the second flush of a run would block after the first one succeeded
\* and cleared the POLLOUT the loop starts with
PolloutIffFlushBlockedWitness ==
    /\ pc = "poll"
    /\ unsynchronized
    /\ ~egl_has_fences
    /\ nsubmit = 2
    /\ nevents = 1
    /\ flushed = "EAGAIN"
    /\ "POLLOUT" \in fds[0].events

(* -------------------------------- C21 --------------------------------- *)

StaleOnlyAfterEmptyPoll ==
    (pc = "reap" /\ ~(ReadyFds \subseteq reported)) => reported = {}

(* -------------------------------- C22 --------------------------------- *)

\* C22: in synchronized mode the loop enters the poll only with a frame
\* callback registered (the render block would not be entered), and the
\* done of that callback is still to come: the server holds the callback
\* or its done is on the socket; so also after the prepare_read loop has
\* dispatched queued events.
SyncWaitsWithCallback ==
    (~unsynchronized /\ pc = "poll") =>
        /\ wl_state.frame # NULL
        /\ ~should_render
        /\ \/ wl_state.frame \in srv_cb
           \/ \E k \in DOMAIN wire :
                wire[k].type = "done" /\ wire[k].a = wl_state.frame

\* a wait of the first iteration entered after the prepare_read loop has
\* dispatched a close that eglSwapBuffers had left queued
SyncWaitsWithCallbackWitness ==
    /\ pc = "poll"
    /\ ~unsynchronized
    /\ nsubmit = 1
    /\ wl_state.close
    /\ wl_state.frame = 1
    /\ queue = <<>>

(* -------------------------------- C23 --------------------------------- *)

\* draw() calls explored in a run of src/main.c
SimpleDraws == 3

\* the variables of the client of src/unnamed/part_000
looped == <<config, wl_state, tracker, frame_num, pc, reading, env, seen,
            ended, flushed, reported, ftvars>>

\* what a handler of src/main.c works on: struct state and, around it, the
\* callbacks the server holds, the descriptors made, the clock, the draws
World == [st |-> m_st, cb |-> m_cb, nclose |-> m_nclose, now |-> m_now,
          ndraw |-> m_ndraw]

\* draw(), src/main.c lines 165-204: the frame callback, the pending
\* resize, the submit time, eglSwapBuffers, the fence descriptor in st->fence
draw(w) ==
    LET c == w.st.conf
        fd == WlFd + 1 + w.ndraw
    IN  [w EXCEPT !.st.frame = w.ndraw + 1,
                  !.st.conf = IF c.serial # 0
                              THEN [serial |-> 0,
                                    width |-> IF c.width = 0 THEN DefaultSize
                                              ELSE c.width,
                                    height |-> IF c.height = 0 THEN DefaultSize
                                               ELSE c.height]
                              ELSE c,
                  !.st.submit_time_ns = w.now,
                  !.st.fence = fd,
                  !.cb = @ \cup {w.ndraw + 1},
                  !.nclose = @ @@ (fd :> 0),
                  !.now = @ + 1,
                  !.ndraw = @ + 1]

\* the listeners of src/main.c: xdg_configure, toplevel_configure,
\* toplevel_close, frame_done (which draws the next frame)
listener(w, m) ==
    CASE m.type = "configure" -> [w EXCEPT !.st.conf.serial = m.a]
      [] m.type = "toplevel_configure" ->
            [w EXCEPT !.st.conf.width = m.a, !.st.conf.height = m.b]
      [] m.type = "close" -> [w EXCEPT !.st.running = FALSE]
      [] m.type = "done" -> draw([w EXCEPT !.st.frame = NULL])

RECURSIVE wl_display_dispatch(_, _)
\* reads the socket and calls the listener of every event, in order
wl_display_dispatch(w, q) ==
    IF q = <<>> THEN w
    ELSE wl_display_dispatch(listener(w, Head(q)), Tail(q))

\* the variables a World is written back to
SetWorld(w) ==
    /\ m_st' = w.st
    /\ m_cb' = w.cb
    /\ m_nclose' = w.nclose
    /\ m_now' = w.now
    /\ m_ndraw' = w.ndraw

\* src/main.c lines 415-421: the first draw, the two pollfds
SimpleStart ==
    /\ m_pc = "draw"
    /\ LET w == draw(World)
       IN  /\ SetWorld([w EXCEPT !.st.fence = NoFd])
           /\ m_fds' = [i \in 0..1 |->
                         IF i = 0 THEN [fd |-> WlFd,
                                        events |-> {"POLLIN", "POLLOUT"},
                                        revents |-> {}]
                         ELSE [fd |-> w.st.fence, events |-> {"POLLIN"},
                               revents |-> {}]]
    /\ m_pc' = "while"
    /\ UNCHANGED <<m_wire, m_hup, m_nev, m_signaled, m_out, looped, probe>>

\* what the kernel reports for m_fds[i]; a negative descriptor is ignored
simple_revents(i, wout) ==
    IF i = 0
    THEN (IF m_wire # <<>> THEN {"POLLIN"} ELSE {})
         \cup (IF wout THEN {"POLLOUT"} ELSE {})
         \cup (IF m_hup THEN {"POLLHUP"} ELSE {})
    ELSE IF m_fds[i].fd # NoFd /\ m_fds[i].fd \in DOMAIN m_signaled
            /\ "POLLIN" \in m_fds[i].events
         THEN {"POLLIN"} ELSE {}

\* lines 423-428: while (st.running) { ret = poll(fds, 2, 0); if (ret == -1) break;
SimplePoll ==
    /\ m_pc = "while"
    /\ IF ~m_st.running
       THEN /\ m_pc' = "exit"
            /\ UNCHANGED <<m_fds, m_nev>>
       ELSE \E ok, wout \in BOOLEAN :
            /\ ~ok => m_nev < MaxEvents
            /\ m_nev' = (IF ok THEN m_nev ELSE m_nev + 1)
            /\ m_fds' = (IF ok
                         THEN [i \in 0..1 |->
                                [m_fds[i] EXCEPT !.revents = simple_revents(i, wout)]]
                         ELSE m_fds)
            /\ m_pc' = (IF ok THEN "reap" ELSE "exit")
    /\ UNCHANGED <<m_st, m_wire, m_cb, m_hup, m_signaled, m_nclose, m_now,
                   m_out, m_ndraw, looped, probe>>

\* lines 430-440: the watched fence has signalled: query, close, print
SimpleReap ==
    /\ m_pc = "reap"
    /\ IF m_fds[1].fd # NoFd /\ "POLLIN" \in m_fds[1].revents
       THEN \E sh \in Shapes :
            LET info == At(sh, m_signaled[m_fds[1].fd])
                failed == ~(info.ok1 /\ info.ok2)
            IN  /\ failed => m_nev < MaxEvents
                /\ m_nev' = (IF failed THEN m_nev + 1 ELSE m_nev)
                /\ m_nclose' = close_all(m_nclose, <<m_fds[1].fd>>)
                /\ m_out' = Append(m_out, [fd |-> m_fds[1].fd,
                                           submit |-> m_st.submit_time_ns,
                                           time_ns |-> fence_timestamp(info)])
                /\ m_fds' = [m_fds EXCEPT ![1].fd = NoFd, ![1].events = {}]
                /\ m_st' = [m_st EXCEPT !.submit_time_ns = 0]
       ELSE UNCHANGED <<m_nev, m_nclose, m_out, m_fds, m_st>>
    /\ m_pc' = "socket"
    /\ UNCHANGED <<m_wire, m_cb, m_hup, m_signaled, m_now, m_ndraw, looped, probe>>

\* lines 442-448: the display socket: break, dispatch, or flush
SimpleSocket ==
    /\ m_pc = "socket"
    /\ IF m_fds[0].revents \cap {"POLLERR", "POLLHUP"} # {}
       THEN /\ m_pc' = "exit"
            /\ UNCHANGED <<m_st, m_cb, m_nclose, m_now, m_ndraw, m_wire>>
       ELSE IF "POLLIN" \in m_fds[0].revents
       THEN /\ SetWorld(wl_display_dispatch(World, m_wire))
            /\ m_wire' = <<>>
            /\ m_pc' = "move"
       ELSE /\ m_pc' = "move"
            /\ UNCHANGED <<m_st, m_cb, m_nclose, m_now, m_ndraw, m_wire>>
    /\ UNCHANGED <<m_fds, m_hup, m_nev, m_signaled, m_out, looped, probe>>

\* lines 450-455: the descriptor of a new frame goes to the watched slot
SimpleMove ==
    /\ m_pc = "move"
    /\ IF m_st.fence # NoFd
       THEN /\ m_fds' = [m_fds EXCEPT ![1].fd = m_st.fence,
                                      ![1].events = {"POLLIN"}]
            /\ m_st' = [m_st EXCEPT !.fence = NoFd]
       ELSE UNCHANGED <<m_fds, m_st>>
    /\ m_pc' = "while"
    /\ UNCHANGED <<m_wire, m_cb, m_hup, m_nev, m_signaled, m_nclose, m_now,
                   m_out, m_ndraw, looped, probe>>

\* lines 458-464: the globals and the connection are released; no
\* descriptor is closed
SimpleExit ==
    /\ m_pc = "exit"
    /\ m_pc' = "done"
    /\ m_cb' = {}
    /\ UNCHANGED <<m_st, m_fds, m_wire, m_hup, m_nev, m_signaled, m_nclose,
                   m_now, m_out, m_ndraw, looped, probe>>

\* the server of src/main.c, observed by the poll: it fires the frame
\* callback it holds (SimpleDraws draws are explored), configures, closes
\* the window, or goes away
SimpleServer ==
    /\ m_pc = "while"
    /\ m_st.running
    /\ ~m_hup
    /\ \/ /\ m_ndraw < SimpleDraws
          /\ \E cb \in m_cb :
                /\ m_wire' = Append(m_wire, Msg("done", cb, 0))
                /\ m_cb' = m_cb \ {cb}
          /\ UNCHANGED <<m_nev, m_hup>>
       \/ /\ m_nev < MaxEvents
          /\ \E m \in {Msg("close", 0, 0), Msg("configure", 2, 0),
                       Msg("toplevel_configure", 0, 0)} :
                m_wire' = Append(m_wire, m)
          /\ m_nev' = m_nev + 1
          /\ UNCHANGED <<m_cb, m_hup>>
       \/ /\ m_nev < MaxEvents
          /\ m_hup' = TRUE
          /\ m_nev' = m_nev + 1
          /\ UNCHANGED <<m_cb, m_wire>>
    /\ UNCHANGED <<m_st, m_fds, m_pc, m_signaled, m_nclose, m_now, m_out,
                   m_ndraw, looped, probe>>

\* the GPU finishes a frame: the sync file of a descriptor signals
SimpleSignal ==
    /\ m_pc = "while"
    /\ \E fd \in DOMAIN m_nclose :
        /\ fd \notin DOMAIN m_signaled
        /\ m_nclose[fd] = 0
        /\ m_signaled' = m_signaled @@ (fd :> m_now)
    /\ UNCHANGED <<m_st, m_fds, m_pc, m_wire, m_cb, m_hup, m_nev, m_nclose,
                   m_now, m_out, m_ndraw, looped, probe>>

NextSimple ==
    \/ SimpleStart \/ SimplePoll \/ SimpleReap \/ SimpleSocket \/ SimpleMove
    \/ SimpleExit \/ SimpleServer \/ SimpleSignal

\* a run of src/main.c for each size of the first configure
InitSimple ==
    /\ Start(TRUE, 0, FALSE, TRUE, FALSE, <<0, 0>>, 0)
    /\ ft_in = NoCall
    /\ ft_ret = 0
    /\ \E sz \in Sizes : StartSimple(sz)
    /\ he_in = NoProbe
    /\ he_ret = FALSE

SpecSimple == InitSimple /\ [][NextSimple]_vars

\* descriptors made by draw() and not closed
SimpleOpen == {fd \in DOMAIN m_nclose : m_nclose[fd] = 0}

\* C23: a descriptor made by draw() stays in st.fence or in the watched
\* slot until it is closed: the slot is never overwritten while the
\* descriptor in it is open.
SlotNeverOverwritten ==
    m_pc # "draw" => SimpleOpen \subseteq {m_st.fence, m_fds[1].fd}

\* what the single-fence client keeps: no descriptor is closed twice, and
\* each line printed is of a descriptor that signalled and is closed
SimpleReportsClosed ==
    /\ \A fd \in DOMAIN m_nclose : m_nclose[fd] <= 1
    /\ \A k \in DOMAIN m_out :
        /\ m_out[k].fd \in DOMAIN m_signaled
        /\ m_nclose[m_out[k].fd] = 1
        /\ \A j \in DOMAIN m_out : j # k => m_out[j].fd # m_out[k].fd

(* -------------------------------- C24 --------------------------------- *)

\* 10, 20, 40, ...: what the capacity can be after at most GrowFrames tracks
Capacities == {InitialCap * 2^k : k \in 0..GrowFrames}

\* C24: the length of the tracker is at least 1 and at most its capacity,
\* the capacity is 10 times a power of two and never shrinks, and a track
\* writes the entry at the old length, which is below the capacity then,
\* and nothing else; whatever reaps come in between.
TrackerWithinCapacity ==
    /\ [](1 <= len /\ len <= cap /\ cap \in Capacities)
    /\ [][cap' >= cap]_vars
    /\ [][len' > len =>
            /\ len' = len + 1
            /\ len < cap'
            /\ len \in DOMAIN fds' /\ len \in DOMAIN fences'
            /\ fds'[len].fd = FenceOf(frame_num)
            /\ \A i \in DOMAIN fds : i # len =>
                    fds'[i] = fds[i] /\ fences'[i] = fences[i]]_vars

\* a track into a tracker that was full, has doubled, and has been reaped
\* from in between
TrackerWithinCapacityWitness ==
    /\ cap = 2 * InitialCap
    /\ len = InitialCap + 1
    /\ Len(out) = 1
    /\ fds[len - 1].fd = FenceOf(frame_num - 1)
    /\ pc = "prepare"

(* -------------------------------- C25 --------------------------------- *)

\* C25: once wl_state.close is set the loop does not enter another poll
\* (nor another render block).
CloseExitsBeforeWait == wl_state.close => pc \notin {"render", "poll"}

\* what the loop keeps: no frame is submitted once wl_state.close is set,
\* and a close dispatched after the poll ends the loop at its next test
CloseExitsBeforeSubmit ==
    /\ [][wl_state.close => nsubmit' = nsubmit]_vars
    /\ [](wl_state.close => pc # "render")
    /\ [][(pc = "while" /\ wl_state.close) => pc' \in {"while", "teardown"}]_vars

(* -------------------------------- C26 --------------------------------- *)

\* C26: the viewport of every submission has a width and a height other
\* than 0.
ViewportNonZero == nsubmit > 0 => (vp[1] # 0 /\ vp[2] # 0)

\* what holds of the code: the viewport of a submission that acknowledges
\* a serial has no zero dimension, and wl_state has none after it
DefaultSizeOnAck ==
    [][acks' # acks =>
        /\ vp'[1] # 0 /\ vp'[2] # 0
        /\ vp' = <<wl_state'.width, wl_state'.height>>]_vars

(* -------------------------------- C27 --------------------------------- *)

\* the steps of main() other than the poll and the reap
Unwaited ==
    While \/ Render \/ PrepareRead \/ Flush \/ ReadEvents \/ Teardown

\* nothing the poll could report: no event on the socket, no hangup, no
\* tracked fence signalled, POLLOUT not asked for
NothingReady ==
    /\ wire = <<>>
    /\ ~hup
    /\ "POLLOUT" \notin fds[0].events
    /\ \A i \in 1..(len - 1) : fds[i].fd \notin DOMAIN signaled

\* C27: the poll is called with timeout 0 in unsynchronized mode, where
\* it returns at once also with nothing ready, and with timeout -1 in
\* synchronized mode, where with nothing ready it returns only by failing;
\* at every other point of main() the next step needs nothing from outside
\* (the reap needs the kernel's answers to its queries, which it has).
OnlyPollSuspends ==
    /\ (pc = "poll" /\ unsynchronized) => (poll_timeout = 0 /\ ENABLED Poll)
    /\ (pc = "poll" /\ ~unsynchronized) => poll_timeout = -1
    /\ (pc = "poll" /\ ~unsynchronized /\ NothingReady /\ nevents = MaxEvents)
            => ~ENABLED Poll
    /\ pc \notin {"poll", "reap", "done"} => ENABLED Unwaited
    /\ pc = "reap" => \E info \in Answers : nevents + Failures(info) <= MaxEvents

\* a poll of an unsynchronized run that has nothing to report and no
\* failure left to return with: it still returns
OnlyPollSuspendsWitness ==
    /\ pc = "poll"
    /\ unsynchronized
    /\ NothingReady
    /\ nevents = MaxEvents
    /\ nsubmit = 2

(* -------------------------------- C28 --------------------------------- *)

\* C28: the frame numbers stored at positions 1..len-1 grow strictly with
\* the position, so no two are equal, and each is smaller than frame_num,
\* the number the next frame gets.
FrameIdsAscending ==
    /\ \A i, j \in 1..(len - 1) :
            i < j => fences[i].frame_num < fences[j].frame_num
    /\ \A i \in 1..(len - 1) :
            fences[i].frame_num >= 0 /\ fences[i].frame_num < frame_num

\* a tracker from the middle of which a fence has been reaped and to which
\* fences have been added since
FrameIdsAscendingWitness ==
    /\ Len(out) = 1
    /\ len >= 4
    /\ \E i \in 1..(len - 2) :
            /\ fences[i].frame_num < out[1].frame_num
            /\ out[1].frame_num < fences[i + 1].frame_num
    /\ fences[len - 1].frame_num = frame_num - 1
    /\ frame_num = GrowFrames

(* -------------------------------- C29 --------------------------------- *)

\* C29: in every latency line the completion time is at least the
\* submission time, so end_ns - start_ns does not wrap, and it is never
\* the sentinel 0.
CompletionNotBeforeSubmit ==
    \A k \in DOMAIN out :
        /\ out[k].end_ns >= out[k].start_ns
        /\ out[k].end_ns # 0

\* what holds of the code: a completion time before the submission time is
\* the 0 of a failed query or of a fence that has not signalled
EarlyCompletionIsZero ==
    \A k \in DOMAIN out :
        out[k].end_ns < out[k].start_ns => out[k].end_ns = 0

(* -------------------------------- C30 --------------------------------- *)

\* what the teardown releases: EGL and GL objects, Wayland objects
GpuObjects == {"gl_program", "egl_surface", "egl_context"}
ConnectionObjects == {"wl_surface", "wl_globals", "wl_display"}

\* the place of x in the order of release
Pos(x) == CHOOSE i \in DOMAIN released : released[i] = x

\* C30 as stated: the GPU objects are released first, then the connection
\* objects, and the fence descriptors are closed last.
FencesClosedLast ==
    released # <<>> =>
        \A g \in GpuObjects, c \in ConnectionObjects :
            Pos(g) < Pos(c) /\ Pos(c) < Pos("fences")

\* C30: the teardown closes the fence descriptors still tracked before it
\* releases any GPU or connection object other than the frame callback;
\* then it releases the GL program, the EGL surface, the window's Wayland
\* objects, the EGL context, the globals and the connection, in this order.
\* Nothing is released before the teardown.
FencesClosedFirst ==
    /\ pc # "done" => released = <<>>
    /\ released # <<>> =>
        /\ \A x \in GpuObjects \cup ConnectionObjects : Pos("fences") < Pos(x)
        /\ Pos("frame") < Pos("fences")
        /\ Pos("gl_program") < Pos("egl_surface")
        /\ Pos("egl_surface") < Pos("wl_surface")
        /\ Pos("wl_surface") < Pos("egl_context")
        /\ Pos("egl_context") < Pos("wl_globals")
        /\ Pos("wl_globals") < Pos("wl_display")
        /\ \A fd \in Tracked : nclose[fd] = 1

\* a teardown after the frame limit that had a fence descriptor to close
FencesClosedFirstWitness ==
    /\ pc = "done"
    /\ ended = "condition"
    /\ released # <<>>
    /\ len = 2
    /\ nclose[fds[1].fd] = 1
    /\ Len(out) = 1

(* -------------------------------- C31 --------------------------------- *)

\* C31: frame_num is the number of frames submitted so far: every
\* submission has found it equal to the number of earlier ones and has
\* advanced it by one.
FrameNumCountsSubmissions == frame_num = nsubmit

\* what holds of the code: frame_num is the number of submissions, with or
\* without fences, except after the return of line 572, which follows the
\* eglSwapBuffers of a frame and precedes the increment; frame_num changes
\* in no step that does not submit, and by one
FrameNumUnlessAllocFailed ==
    /\ [](IF ended = "realloc" THEN nsubmit = frame_num + 1
          ELSE frame_num = nsubmit)
    /\ [][frame_num' # frame_num =>
            frame_num' = frame_num + 1 /\ nsubmit' = nsubmit + 1]_vars

(* -------------------------------- C32 --------------------------------- *)

\* longest extension string and longest extension name explored
MaxExts == 4
MaxExt == 2

\* the characters of the strings explored; the terminator of a C string
NameChars == {"a", "b"}
Chars == NameChars \cup {" "}
Nul == "NUL"

\* s[i - 1] of the C string s: its characters, then the terminator
CharAt(s, i) == IF i \in DOMAIN s THEN s[i] ELSE Nul

\* strchr(s + p - 1, c): the place of the first c from place p on, 0 for NULL
strchr(s, p, c) ==
    IF \E i \in p..Len(s) : s[i] = c
    THEN CHOOSE i \in p..Len(s) :
            s[i] = c /\ \A j \in p..(i - 1) : s[j] # c
    ELSE 0

\* strlen(s + p - 1)
strlen(s, p) == Len(s) - p + 1

RECURSIVE strncmp(_, _, _, _, _)
\* strncmp(s + p - 1, t + q - 1, n): 0 if equal, 1 if not
strncmp(s, p, t, q, n) ==
    IF n = 0 THEN 0
    ELSE IF CharAt(s, p) # CharAt(t, q) THEN 1
    ELSE IF CharAt(s, p) = Nul THEN 0
    ELSE strncmp(s, p + 1, t, q + 1, n - 1)

RECURSIVE has_ext_from(_, _, _)
\* the loop of has_ext with exts at place p
has_ext_from(exts, p, ext) ==
    IF CharAt(exts, p) = Nul THEN FALSE
    ELSE LET end == strchr(exts, p, " ")
             n == IF end # 0 THEN end - p ELSE strlen(exts, p)
         IN  IF strncmp(exts, p, ext, 1, n) = 0 THEN TRUE
             ELSE has_ext_from(exts, p + n + (IF end # 0 THEN 1 ELSE 0), ext)

\* has_ext(exts, ext), lines 149-161
has_ext(exts, ext) == has_ext_from(exts, 1, ext)

\* the extension strings and the names looked for
ExtsInputs == {<<>>} \cup SeqsUpTo(Chars, MaxExts)
ExtInputs == SeqsUpTo(NameChars, MaxExt)

\* has_ext(exts, ext) called with the arguments drawn
ExtCall ==
    /\ ~he_in.done
    /\ he_in' = [he_in EXCEPT !.done = TRUE]
    /\ he_ret' = has_ext(he_in.exts, he_in.ext)
    /\ UNCHANGED <<looped, mainc>>

NextExt == ExtCall

\* any extension string and any name, has_ext not yet called
InitExt ==
    /\ Start(TRUE, 0, FALSE, TRUE, FALSE, <<0, 0>>, 0)
    /\ ft_in = NoCall /\ ft_ret = 0
    /\ StartSimple(<<0, 0>>)
    /\ he_in \in [exts : ExtsInputs, ext : ExtInputs, done : {FALSE}]
    /\ he_ret = FALSE

SpecExt == InitExt /\ [][NextExt]_vars

\* ext is a whole token of exts: it stands between spaces or the ends
WholeToken(exts, ext) ==
    \E i \in 1..Len(exts) :
        LET j == i + Len(ext) - 1
        IN  /\ j <= Len(exts)
            /\ SubSeq(exts, i, j) = ext
            /\ i = 1 \/ exts[i - 1] = " "
            /\ j = Len(exts) \/ exts[j + 1] = " "

\* C32: has_ext returns true exactly when ext is a whole token of exts.
HasExtIffWholeToken ==
    he_in.done => (he_ret <=> WholeToken(he_in.exts, he_in.ext))

\* the tokens has_ext looks at: the stretches between the spaces, empty
\* ones included, but not the empty stretch after a last space
Stretches(exts) ==
    {<<i, j>> \in (1..Len(exts)) \X (0..Len(exts)) :
        /\ j >= i - 1
        /\ \A k \in i..j : exts[k] # " "
        /\ i = 1 \/ exts[i - 1] = " "
        /\ j = Len(exts) \/ exts[j + 1] = " "}

\* what holds of the code: has_ext returns true exactly when one of these
\* tokens is a prefix of ext, the whole of ext or less, the empty token
\* included; so it is true for every whole token
HasExtIffPrefixToken ==
    he_in.done =>
        /\ he_ret <=>
            \E t \in Stretches(he_in.exts) :
                LET n == t[2] - t[1] + 1
                IN  /\ n <= Len(he_in.ext)
                    /\ SubSeq(he_in.exts, t[1], t[2]) = SubSeq(he_in.ext, 1, n)
        /\ WholeToken(he_in.exts, he_in.ext) => he_ret

\* a token that is a proper prefix of ext is taken for ext
ProperPrefixAccepted ==
    /\ he_in.done
    /\ he_in.exts = <<"a">> /\ he_in.ext = <<"a", "b">>
    /\ he_ret

\* the empty token before a leading space is taken for ext
EmptyTokenAccepted ==
    /\ he_in.done
    /\ he_in.exts = <<" ", "b">> /\ he_in.ext = <<"a">>
    /\ he_ret

\* the space after the last token leaves no empty token behind
TrailingSpaceRejected ==
    /\ he_in.done
    /\ he_in.exts = <<"b", " ">> /\ he_in.ext = <<"a">>
    /\ ~he_ret

====
